---------------------------- MODULE Spec2Model ----------------------------
(***************************************************************************)
(* ObjectDetectionService (live_vlm_webui/object_detection_service.py).    *)
(*                                                                         *)
(* The service runs on one asyncio event loop.  A coroutine runs without   *)
(* interruption until it awaits something that is not ready; the only such *)
(* await in the class is `await asyncio.to_thread(self.model, ...)` in     *)
(* detect().  initialize() is synchronous, `await self.detect(image)` does *)
(* not yield by itself and an uncontended asyncio.Lock is acquired without *)
(* yielding.  So every call is two atomic segments: from its start up to   *)
(* the to_thread await, and from the resumption to its return.  Between    *)
(* the two the worker thread runs the backend.                             *)
(*                                                                         *)
(* Times are integers (ticks of time.perf_counter()); a quotient of two    *)
(* floats is kept as the exact fraction <<numerator, denominator>>.        *)
(***************************************************************************)
EXTENDS Integers, Sequences, FiniteSets, TLC

VARIABLES
    YOLO_AVAILABLE,        \* module flag set by the import at load time
    constructed,           \* an ObjectDetectionService instance exists
    model,                 \* self.model: None or the handle YOLO() returned
    is_initialized,        \* self.is_initialized
    current_detections,    \* self.current_detections
    lockHolder,            \* self._processing_lock: 0 = free, else the holder
    last_inference_time,   \* self.last_inference_time
    total_inferences,      \* self.total_inferences
    total_inference_time,  \* self.total_inference_time
    clock,                 \* time.perf_counter()
    pc,                    \* per caller task: position of its pending call
    call,                  \* per caller task: the locals of its pending call
    ev,                    \* the operation that just ended or suspended
    constructions,         \* history: calls of YOLO(model_path) made
    warmups,               \* history: warm-up inferences made
    backendCalls,          \* history: per-frame inferences handed to a thread
    callsStarted,          \* history: detect()/process_frame() calls made
    nOk,                   \* history: detect() calls that returned from the try body
    sumOk,                 \* history: sum of the latencies those calls measured
    lastOk,                \* history: latency of the latest of those calls
    accepted,              \* history: process_frame() calls that took the lock
    published              \* history: which of them current_detections is from

svc == <<model, is_initialized, current_detections, lockHolder,
         last_inference_time, total_inferences, total_inference_time>>
metrics == <<last_inference_time, total_inferences, total_inference_time>>
hist == <<constructions, warmups, backendCalls, callsStarted, nOk, sumOk, lastOk>>
order == <<accepted, published>>
vars == <<YOLO_AVAILABLE, constructed, svc, clock, pc, call, ev, hist, order>>

-----------------------------------------------------------------------------
(* Bounds of the model *)
NumTasks == 2
MaxCalls == 2
MaxClock == 1
MaxInits == 2

Tasks == 1..NumTasks
Frames == {"f1", "f2"}

None == 0            \* self.model = None; a loaded handle is a positive number
NoCall == [op |-> "none", start_time |-> 0, fn |-> None, seq |-> 0]

-----------------------------------------------------------------------------
(* The backend: what self.model(image, conf=..., verbose=False) hands back *)

\* model.names of the loaded model: class id -> label
names == [c \in {0, 2} |-> IF c = 0 THEN "person" ELSE "car"]

\* one box of result.boxes; xyxy and conf are in units of 1/10000
Box(c, cf, xy) == [cls |-> c, conf |-> cf, xyxy |-> xy]

PersonBox == Box(0, 9100, <<102490, 202510, 300000, 400000>>)
CarBox == Box(2, 4000, <<10000, 20000, 30000, 40000>>)
AlienBox == Box(7, 8675, <<0, 0, 50000, 50000>>)
FaintBox == Box(0, 1000, <<7050, 7150, 9000, 9000>>)

\* result = results[0]: result.boxes and result.masks (hasMasks = FALSE: masks
\* is None; else masks is masks.xy, one polygon per box); the backend's
\* return value is a sequence of such results, possibly empty
Result(b, h, m) == [boxes |-> b, hasMasks |-> h, masks |-> m]

RawResults ==
    { <<>>,
      <<Result(<<>>, FALSE, <<>>)>>,
      <<Result(<<PersonBox, CarBox>>, FALSE, <<>>)>>,
      <<Result(<<CarBox, PersonBox>>, TRUE, << <<>>, << <<1, 2>>, <<3, 4>> >> >>)>>,
      <<Result(<<PersonBox, AlienBox>>, FALSE, <<>>)>>,
      <<Result(<<CarBox, FaintBox, CarBox>>, FALSE, <<>>)>> }

\* how the worker thread's call of the backend ends
WorkerOutcomes ==
    { [raised |-> FALSE, results |-> r] : r \in RawResults }
        \cup { [raised |-> TRUE, results |-> <<>>] }
InitOutcomes == {"ok", "construct_raises", "warmup_raises"}

-----------------------------------------------------------------------------
(* Decoding, lines 117-145 *)

\* round(x, ndigits) on a value held in units of 1/10000: the nearest
\* multiple of q, ties to even
Round(x, q) ==
    LET d == x \div q
        r == x % q
    IN  IF 2 * r < q THEN d
        ELSE IF 2 * r > q THEN d + 1
        ELSE IF d % 2 = 0 THEN d ELSE d + 1

TenthUnit == 1000
HundredthUnit == 100

\* whether building the detection of box i raises (KeyError of names[cls],
\* IndexError of masks.xy[i])
DetRaises(result, i) ==
    \/ result.boxes[i].cls \notin DOMAIN names
    \/ result.hasMasks /\ i > Len(result.masks)

\* the dictionary built for box i
Det(result, i) ==
    LET box == result.boxes[i]
        det == [box |-> [k \in 1..4 |-> Round(box.xyxy[k], TenthUnit)],
                label |-> names[box.cls],
                class_id |-> box.cls,
                conf |-> Round(box.conf, HundredthUnit)]
    IN  IF result.hasMasks /\ Len(result.masks[i]) > 0
        THEN [f \in {"box", "label", "class_id", "conf", "mask"} |->
                 IF f = "mask" THEN result.masks[i] ELSE det[f]]
        ELSE det

\* the default of the constructor's `confidence`, in units of 1/10000
ConfThreshold == 2500

\* Mutation of Decode: boxes under the confidence threshold are left out.
DecodeFiltered(results) ==
    IF Len(results) = 0
    THEN [raised |-> FALSE, detections |-> <<>>]
    ELSE LET Sure(b) == b.conf >= ConfThreshold
             result == [results[1] EXCEPT !.boxes = SelectSeq(@, Sure)]
             n == Len(result.boxes)
         IN  IF \E i \in 1..n : DetRaises(result, i)
             THEN [raised |-> TRUE, detections |-> <<>>]
             ELSE [raised |-> FALSE,
                   detections |-> [i \in 1..n |-> Det(result, i)]]

\* the body of the try block after the backend returned `results`
Decode(results) ==
    IF Len(results) = 0
    THEN [raised |-> FALSE, detections |-> <<>>]
    ELSE LET result == results[1]
             n == Len(result.boxes)
         IN  IF \E i \in 1..n : DetRaises(result, i)
             THEN [raised |-> TRUE, detections |-> <<>>]
             ELSE [raised |-> FALSE,
                   detections |-> [i \in 1..n |-> Det(result, i)]]

-----------------------------------------------------------------------------
(* Model loading, lines 75-94 *)

\* Mutation of initialize: the `if self.is_initialized: return` is missing.
initializeAgain(io) ==
    LET same == [model |-> model, is_initialized |-> is_initialized,
                 raised |-> FALSE, built |-> 0, warmed |-> 0]
    IN  IF ~YOLO_AVAILABLE THEN same
        ELSE IF io = "construct_raises"
             THEN [same EXCEPT !.raised = TRUE, !.built = 1]
        ELSE IF io = "warmup_raises"
             THEN [same EXCEPT !.model = constructions + 1, !.raised = TRUE,
                               !.built = 1, !.warmed = 1]
        ELSE [same EXCEPT !.model = constructions + 1, !.is_initialized = TRUE,
                          !.built = 1, !.warmed = 1]

\* Mutation of initialize: is_initialized is set before the warm-up call.
initializeReadyBeforeWarmup(io) ==
    LET same == [model |-> model, is_initialized |-> is_initialized,
                 raised |-> FALSE, built |-> 0, warmed |-> 0]
    IN  IF is_initialized THEN same
        ELSE IF ~YOLO_AVAILABLE THEN same
        ELSE IF io = "construct_raises"
             THEN [same EXCEPT !.raised = TRUE, !.built = 1]
        ELSE IF io = "warmup_raises"
             THEN [same EXCEPT !.model = constructions + 1, !.is_initialized = TRUE,
                               !.raised = TRUE, !.built = 1, !.warmed = 1]
        ELSE [same EXCEPT !.model = constructions + 1, !.is_initialized = TRUE,
                          !.built = 1, !.warmed = 1]

\* initialize(): the fields it leaves, whether it raised, and how many
\* constructions and warm-ups it made.  io is how the backend behaves when
\* asked to load.
initialize(io) ==
    LET same == [model |-> model, is_initialized |-> is_initialized,
                 raised |-> FALSE, built |-> 0, warmed |-> 0]
    IN  IF is_initialized THEN same
        ELSE IF ~YOLO_AVAILABLE THEN same
        ELSE IF io = "construct_raises"
             THEN [same EXCEPT !.raised = TRUE, !.built = 1]
        ELSE IF io = "warmup_raises"
             THEN [same EXCEPT !.model = constructions + 1, !.raised = TRUE,
                               !.built = 1, !.warmed = 1]
        ELSE [same EXCEPT !.model = constructions + 1, !.is_initialized = TRUE,
                          !.built = 1, !.warmed = 1]

\* the part of a step that initialize() writes
InitEffect(r) ==
    /\ model' = r.model
    /\ is_initialized' = r.is_initialized
    /\ constructions' = constructions + r.built
    /\ warmups' = warmups + r.warmed

\* initialize() may be entered: the model is Ready or a load may still be tried
MayInit == is_initialized \/ constructions < MaxInits

\* the ways the backend may behave in an initialize() entered now; it is not
\* asked anything once the model is Ready
InitChoices == IF is_initialized THEN {"ok"} ELSE InitOutcomes

-----------------------------------------------------------------------------
(* Metrics, lines 147-153 and 176-185 *)

MsPerSecond == 1000

\* Mutation of RecordMetrics: the running total is overwritten, not added to.
RecordMetricsOverwrite(inference_time, detections) ==
    /\ last_inference_time' = inference_time
    /\ total_inferences' = total_inferences + 1
    /\ total_inference_time' = inference_time

\* Mutation of RecordMetrics: the counter counts detected objects.
RecordMetricsPerObject(inference_time, detections) ==
    /\ last_inference_time' = inference_time
    /\ total_inferences' = total_inferences + Len(detections)
    /\ total_inference_time' = total_inference_time + inference_time

\* the three assignments of the success path, lines 150-153, for the measured
\* inference_time; the decoded detections are at hand and not used
RecordMetrics(inference_time, detections) ==
    /\ last_inference_time' = inference_time
    /\ total_inferences' = total_inferences + 1
    /\ total_inference_time' = total_inference_time + inference_time

\* Mutation of FailOpen: the metrics are updated in a `finally`.
FailOpenCounted == [raised |-> FALSE, detections |-> <<>>, recorded |-> TRUE]

\* Mutation of FailOpen: the except branch re-raises.
FailOpenRaises == [raised |-> TRUE, detections |-> <<>>, recorded |-> FALSE]

\* what the except branch of detect() does with an exception of the try body
FailOpen == [raised |-> FALSE, detections |-> <<>>, recorded |-> FALSE]

\* the outcome of the try body once the backend call has ended with `out`
TryBody(out) ==
    IF out.raised THEN FailOpen
    ELSE LET d == Decode(out.results)
         IN  IF d.raised THEN FailOpen
             ELSE [raised |-> FALSE, detections |-> d.detections, recorded |-> TRUE]

\* get_metrics(); avg_latency_ms is the fraction <<numerator, denominator>>
get_metrics ==
    LET avg_latency == IF total_inferences > 0
                       THEN <<total_inference_time, total_inferences>>
                       ELSE <<0, 1>>
    IN  [last_latency_ms |-> last_inference_time * MsPerSecond,
         avg_latency_ms |-> <<avg_latency[1] * MsPerSecond, avg_latency[2]>>,
         total_detections |-> total_inferences]

\* get_current_detections()
get_current_detections == current_detections

-----------------------------------------------------------------------------
(* The state after the module is imported, lines 32-40 *)

\* the operation `o` that just acted, how it ended and, for detect(), what it
\* returned
Event(o, res, v) == [op |-> o, outcome |-> res, value |-> v, raw |-> <<>>]

\* the same for a call that ended after its backend call returned `results`
EventAfter(o, res, v, results) ==
    [op |-> o, outcome |-> res, value |-> v, raw |-> results]

Init ==
    /\ YOLO_AVAILABLE \in BOOLEAN
    /\ constructed = FALSE
    /\ model = None
    /\ is_initialized = FALSE
    /\ current_detections = <<>>
    /\ lockHolder = 0
    /\ last_inference_time = 0
    /\ total_inferences = 0
    /\ total_inference_time = 0
    /\ clock = 0
    /\ pc = [t \in Tasks |-> "idle"]
    /\ call = [t \in Tasks |-> NoCall]
    /\ ev = Event("import", "loaded", <<>>)
    /\ constructions = 0
    /\ warmups = 0
    /\ backendCalls = 0
    /\ callsStarted = 0
    /\ nOk = 0
    /\ sumOk = 0
    /\ lastOk = 0
    /\ accepted = 0
    /\ published = 0

\* Mutation of Construct: the availability check of lines 57-61 is missing.
ConstructUnchecked ==
    /\ ~constructed
    /\ constructed' = TRUE
    /\ model' = None
    /\ is_initialized' = FALSE
    /\ current_detections' = <<>>
    /\ lockHolder' = 0
    /\ last_inference_time' = 0
    /\ total_inferences' = 0
    /\ total_inference_time' = 0
    /\ ev' = Event("__init__", "returned", <<>>)
    /\ UNCHANGED <<YOLO_AVAILABLE, clock, pc, call, hist, order>>

\* ObjectDetectionService(model_path, confidence), lines 46-73
Construct ==
    /\ ~constructed
    /\ IF ~YOLO_AVAILABLE
       THEN /\ ev' = Event("__init__", "ImportError", <<>>)
            /\ UNCHANGED <<constructed, svc>>
       ELSE /\ constructed' = TRUE
            /\ model' = None
            /\ is_initialized' = FALSE
            /\ current_detections' = <<>>
            /\ lockHolder' = 0
            /\ last_inference_time' = 0
            /\ total_inferences' = 0
            /\ total_inference_time' = 0
            /\ ev' = Event("__init__", "returned", <<>>)
    /\ UNCHANGED <<YOLO_AVAILABLE, clock, pc, call, hist, order>>

\* a direct call of initialize(), lines 75-94
Initialize(io) ==
    /\ constructed
    /\ MayInit
    /\ LET r == initialize(io)
       IN  /\ InitEffect(r)
           /\ ev' = Event("initialize",
                          IF r.raised THEN "InitError" ELSE "returned", <<>>)
    /\ UNCHANGED <<YOLO_AVAILABLE, constructed, current_detections, lockHolder,
                   metrics, clock, pc, call, backendCalls, callsStarted,
                   nOk, sumOk, lastOk, order>>

\* time passes between two readings of time.perf_counter()
Tick ==
    /\ clock < MaxClock
    /\ clock' = clock + 1
    /\ UNCHANGED <<YOLO_AVAILABLE, constructed, svc, pc, call, ev, hist, order>>

-----------------------------------------------------------------------------
(* detect(), lines 96-159, and process_frame(), lines 161-170 *)

\* Caller tasks are interchangeable: a new call is made by the first task
\* that has no call pending.
Free(t) == pc[t] = "idle" /\ \A u \in Tasks : u < t => pc[u] # "idle"

\* self._processing_lock.locked()
Locked == lockHolder # 0

\* The rank, in the order of acceptance, of the frame a call `o` entering
\* detect() carries: process_frame() enters detect() right after taking the
\* lock.  A standalone detect() has none.
Rank(o) == IF o = "process_frame" THEN accepted + 1 ELSE 0

\* Mutation of DetectEnter: an error of initialize() is swallowed and the
\* backend is called with whatever self.model holds.
DetectEnterDespiteError(o, t, f, io) ==
    LET r == initialize(io)
    IN  /\ InitEffect(r)
        /\ pc' = [pc EXCEPT ![t] = "to_thread"]
        /\ call' = [call EXCEPT ![t] =
               [NoCall EXCEPT !.op = o, !.start_time = clock, !.fn = r.model,
                              !.seq = Rank(o)]]
        /\ backendCalls' = backendCalls + (IF r.model = None THEN 0 ELSE 1)
        /\ ev' = Event(o, "awaiting", <<>>)

\* detect() from its entry to the await of asyncio.to_thread, for the call
\* `o` of task t: lazy initialize(), start_time, the thread started with the
\* model read at this moment and the image f, which only the backend reads.
\* An error of initialize() leaves detect().
DetectEnter(o, t, f, io) ==
    LET r == initialize(io)
    IN  /\ InitEffect(r)
        /\ IF r.raised
           THEN /\ ev' = Event(o, "InitError", <<>>)
                /\ UNCHANGED <<pc, call, backendCalls>>
           ELSE /\ pc' = [pc EXCEPT ![t] = "to_thread"]
                /\ call' = [call EXCEPT ![t] =
                       [NoCall EXCEPT !.op = o, !.start_time = clock,
                                      !.fn = r.model, !.seq = Rank(o)]]
                /\ backendCalls' = backendCalls + (IF r.model = None THEN 0 ELSE 1)
                /\ ev' = Event(o, "awaiting", <<>>)

\* a standalone `await service.detect(image)` by task t, up to its await
Detect(t, f, io) ==
    /\ constructed
    /\ Free(t)
    /\ callsStarted < MaxCalls
    /\ MayInit
    /\ callsStarted' = callsStarted + 1
    /\ DetectEnter("detect", t, f, io)
    /\ UNCHANGED <<YOLO_AVAILABLE, constructed, current_detections, lockHolder,
                   metrics, clock, nOk, sumOk, lastOk, order>>

\* Mutation of Dropped: the early `return` is missing and the frame goes on
\* to detect() although the lock is held.
DroppedFallsThrough(t, f) ==
    /\ DetectEnter("process_frame", t, f, "ok")
    /\ accepted' = accepted + 1
    /\ UNCHANGED <<current_detections, lockHolder, metrics>>

\* process_frame() finding the lock held, lines 165-166
Dropped(t, f) ==
    /\ ev' = Event("process_frame", "dropped", <<>>)
    /\ UNCHANGED <<svc, pc, call, constructions, warmups, backendCalls, accepted>>

\* Mutation of Accepted: the lock is given back before detect() is awaited.
AcceptedNoHold(t, f, io) ==
    /\ DetectEnter("process_frame", t, f, io)
    /\ lockHolder' = 0
    /\ accepted' = accepted + 1
    /\ UNCHANGED <<current_detections, metrics>>

\* Mutation of Accepted: an error of initialize() leaves process_frame()
\* without giving the lock back.
AcceptedKeepsLockOnError(t, f, io) ==
    /\ DetectEnter("process_frame", t, f, io)
    /\ lockHolder' = t
    /\ accepted' = accepted + 1
    /\ UNCHANGED <<current_detections, metrics>>

\* process_frame() taking the lock and entering detect(), lines 168-169; an
\* error of initialize() leaves the `async with` block, which frees the lock
Accepted(t, f, io) ==
    /\ DetectEnter("process_frame", t, f, io)
    /\ lockHolder' = IF initialize(io).raised THEN 0 ELSE t
    /\ accepted' = accepted + 1
    /\ UNCHANGED <<current_detections, metrics>>

\* `await service.process_frame(image)` by task t, up to its first await
ProcessFrame(t, f, io) ==
    /\ constructed
    /\ Free(t)
    /\ callsStarted < MaxCalls
    /\ MayInit
    /\ callsStarted' = callsStarted + 1
    /\ IF Locked THEN Dropped(t, f) ELSE Accepted(t, f, io)
    /\ UNCHANGED <<YOLO_AVAILABLE, constructed, clock, nOk, sumOk, lastOk,
                   published>>

\* the backend call `out` ended without raising and its output decodes
Succeeds(out) == ~out.raised /\ ~Decode(out.results).raised

\* the worker thread's call self.model(image, conf=..., verbose=False) of
\* task t's call ends; the coroutine is now ready to be resumed
WorkerDone(t) ==
    /\ pc[t] = "to_thread"
    /\ pc' = [pc EXCEPT ![t] = "resumable"]
    /\ UNCHANGED <<YOLO_AVAILABLE, constructed, svc, clock, call, ev, hist, order>>

\* Mutation of Publish: the new detections are appended to the stored list.
PublishAppend(o, b) ==
    IF o = "process_frame" /\ ~b.raised
    THEN current_detections \o b.detections ELSE current_detections

\* Mutation of Publish: an empty batch is not stored.
PublishNonEmpty(o, b) ==
    IF o = "process_frame" /\ ~b.raised /\ b.detections # <<>>
    THEN b.detections ELSE current_detections

\* Mutation of Publish: detect() itself stores what it returns.
PublishFromDetect(o, b) ==
    IF ~b.raised THEN b.detections ELSE current_detections

\* self.current_detections after the call `o` got the outcome b of the try
\* body from detect(): line 170 assigns what detect() returned, once, in
\* process_frame() only
Publish(o, b) ==
    IF o = "process_frame" /\ ~b.raised
    THEN b.detections ELSE current_detections

\* Mutation of Awaited: the call goes on without waiting for the thread.
AwaitedEarly(t) == pc[t] \in {"to_thread", "resumable"}

\* `await asyncio.to_thread(...)` of task t's call can return: its thread ended
Awaited(t) == pc[t] = "resumable"

\* the event loop resumes task t's call after the await, `out` being how the
\* backend call ended (calling None can only raise): lines 117-159, then for
\* process_frame line 170 and the release of the lock.  Nothing reads what
\* the thread returned before this step, which therefore draws it.
Resume(t, out) ==
    /\ Awaited(t)
    /\ call[t].fn = None => out.raised
    /\ LET b == TryBody(out)
           inference_time == clock - call[t].start_time
           o == call[t].op
       IN  /\ IF b.recorded THEN RecordMetrics(inference_time, b.detections)
                            ELSE UNCHANGED metrics
           /\ current_detections' = Publish(o, b)
           /\ published' = IF o = "process_frame" /\ ~b.raised
                            THEN call[t].seq ELSE published
           /\ lockHolder' = IF o = "process_frame" THEN 0 ELSE lockHolder
           /\ ev' = EventAfter(o, IF b.raised THEN "InferenceError" ELSE "returned",
                               IF o = "detect" THEN b.detections ELSE <<>>,
                               out.results)
           /\ IF Succeeds(out)
              THEN /\ nOk' = nOk + 1
                   /\ sumOk' = sumOk + inference_time
                   /\ lastOk' = inference_time
              ELSE UNCHANGED <<nOk, sumOk, lastOk>>
    /\ pc' = [pc EXCEPT ![t] = "idle"]
    /\ call' = [call EXCEPT ![t] = NoCall]
    /\ UNCHANGED <<YOLO_AVAILABLE, constructed, model, is_initialized, clock,
                   constructions, warmups, backendCalls, callsStarted,
                   accepted>>

\* get_current_detections(), lines 172-174
GetCurrentDetections ==
    /\ constructed
    /\ ev' = Event("get_current_detections", "returned", <<>>)
    /\ UNCHANGED <<YOLO_AVAILABLE, constructed, svc, clock, pc, call, hist, order>>

\* get_metrics(), lines 176-185
GetMetrics ==
    /\ constructed
    /\ ev' = Event("get_metrics", "returned", <<>>)
    /\ UNCHANGED <<YOLO_AVAILABLE, constructed, svc, clock, pc, call, hist, order>>

Next ==
    \/ Construct
    \/ \E io \in InitChoices : Initialize(io)
    \/ Tick
    \/ \E t \in Tasks, f \in Frames, io \in InitChoices : Detect(t, f, io)
    \/ \E t \in Tasks, f \in Frames, io \in InitChoices : ProcessFrame(t, f, io)
    \/ \E t \in Tasks : WorkerDone(t)
    \/ \E t \in Tasks, out \in WorkerOutcomes : Resume(t, out)
    \/ GetCurrentDetections
    \/ GetMetrics

Spec == Init /\ [][Next]_vars

\* Every backend call ends, returning or raising, and the event loop resumes
\* a coroutine whose awaited thread has ended.
FairSpec ==
    /\ Spec
    /\ \A t \in Tasks :
           /\ WF_vars(WorkerDone(t))
           /\ WF_vars(\E out \in WorkerOutcomes : Resume(t, out))

-----------------------------------------------------------------------------
(* Properties *)

\* the calls whose backend inference is running in a worker thread
InFlight == {t \in Tasks : pc[t] = "to_thread" /\ call[t].fn # None}
SubmitInFlight == {t \in InFlight : call[t].op = "process_frame"}

\* C1: at most one inference started by process_frame() is in flight, it
\* belongs to the holder of the lock, and when every running inference came
\* through process_frame() at most one inference is in flight at all.
C1_SingleFlight ==
    /\ Cardinality(SubmitInFlight) <= 1
    /\ \A t \in SubmitInFlight : lockHolder = t
    /\ InFlight = SubmitInFlight => Cardinality(InFlight) <= 1

\* C1 witness: a second process_frame() has just met the held lock while the
\* first one's inference is in flight.
C1_Witness ==
    /\ Cardinality(SubmitInFlight) = 1
    /\ callsStarted >= 2
    /\ ev.op = "process_frame" /\ ev.outcome = "dropped"

\* a step in which process_frame() is called while the lock is held
SubmitWhileHeld ==
    /\ Locked
    /\ callsStarted' = callsStarted + 1
    /\ ev'.op = "process_frame"

\* C2: a process_frame() called while the lock is held starts no backend
\* call, loads nothing, leaves the current detections, the three metrics
\* accumulators and the model unchanged, and leaves no pending call behind
\* that could process its frame later.
C2_DroppedIsNoOp ==
    [][SubmitWhileHeld =>
          /\ ev'.outcome = "dropped"
          /\ UNCHANGED <<svc, pc, call, backendCalls, constructions, warmups,
                         nOk, sumOk, lastOk>>]_vars

\* C2 witness: a frame has been dropped at a held lock.
C2_Witness ==
    /\ ev.op = "process_frame" /\ ev.outcome = "dropped"
    /\ Locked
    /\ backendCalls = 1 /\ callsStarted = 2

\* task t's call returns or raises in this step, after its await
Completes(t) == pc[t] = "resumable" /\ pc'[t] = "idle"

\* C3: when the model is Ready and the backend call or the decoding raised,
\* detect() returns the empty batch (which process_frame() stores) instead of
\* raising, and the three metrics accumulators keep their values.
C3_FailOpen ==
    [][\A t \in Tasks :
          (is_initialized /\ Completes(t) /\ nOk' = nOk) =>
              /\ ev'.outcome = "returned"
              /\ call[t].op = "detect" => ev'.value = <<>>
              /\ call[t].op = "process_frame" => current_detections' = <<>>
              /\ UNCHANGED metrics]_vars

\* C3 witness: after an inference that succeeded and left objects and a
\* latency behind, a standalone detect() has failed and returned.
C3_Witness ==
    /\ \A t \in Tasks : pc[t] = "idle"
    /\ backendCalls = 2 /\ nOk = 1
    /\ ev.op = "detect" /\ ev.outcome = "returned" /\ ev.value = <<>>
    /\ current_detections # <<>>
    /\ total_inferences = 1 /\ last_inference_time = 1

\* C4 as stated: a process_frame() call is never still pending while the
\* inference it started runs in the worker thread.
C4_SubmitNeverWaits ==
    \A t \in Tasks : ~(call[t].op = "process_frame" /\ pc[t] = "to_thread")

\* C4 amended: a dropped process_frame() returns in the step that calls it;
\* an accepted one that started an inference stays pending while the worker
\* thread runs and completes only once the thread has ended.
C4_SubmitWaitsForItsInference ==
    [][/\ SubmitWhileHeld => pc' = pc
       /\ (~Locked /\ callsStarted' = callsStarted + 1 /\ ev'.op = "process_frame"
              /\ backendCalls' = backendCalls + 1)
            => \E t \in Tasks : pc[t] = "idle" /\ pc'[t] = "to_thread"
       /\ \A t \in Tasks :
            /\ (call[t].op = "process_frame" /\ pc[t] = "to_thread")
                 => pc'[t] \in {"to_thread", "resumable"}
            /\ (pc[t] # "idle" /\ pc'[t] = "idle") => pc[t] = "resumable"]_vars

\* C4 witness: time has passed while an accepted process_frame() is pending
\* on its running inference, and another frame was dropped meanwhile.
C4_Witness ==
    /\ \E t \in Tasks : /\ call[t].op = "process_frame"
                        /\ pc[t] = "to_thread"
                        /\ clock > call[t].start_time
    /\ ev.outcome = "dropped"

\* C5: the counter is the number of detect() calls that completed
\* successfully, the running total the sum of their latencies, the last
\* latency that of the latest of them, and the snapshot's average is that sum
\* over that number, or 0 when there was none.
C5_MetricsMatchHistory ==
    LET snap == get_metrics
        avg == snap.avg_latency_ms
    IN  /\ total_inferences = nOk
        /\ total_inference_time = sumOk
        /\ last_inference_time = lastOk
        /\ snap.total_detections = nOk
        /\ snap.last_latency_ms = lastOk * MsPerSecond
        /\ avg[2] > 0
        /\ nOk > 0 => avg[1] * nOk = sumOk * MsPerSecond * avg[2]
        /\ nOk = 0 => avg[1] = 0

\* C5 witness: two calls succeeded with different latencies, the later one
\* with the shorter.
C5_Witness ==
    /\ nOk = 2 /\ sumOk = 1 /\ lastOk = 0
    /\ get_metrics.avg_latency_ms = <<MsPerSecond, 2>>

\* C6: the counter never decreases; the accumulators change only in a step
\* in which a call completes successfully, and then the counter grows by
\* exactly 1 whatever was detected.
C6_CounterCountsInferences ==
    [][/\ total_inferences' >= total_inferences
       /\ metrics' # metrics =>
              /\ \E t \in Tasks : Completes(t)
              /\ nOk' = nOk + 1
       /\ nOk' = nOk + 1 => total_inferences' = total_inferences + 1]_vars

\* C6 witness: one inference has succeeded with no object detected, after a
\* warm-up, and the counter is 1.
C6_Witness ==
    /\ total_inferences = 1 /\ nOk = 1 /\ warmups = 1
    /\ ev.op = "detect" /\ ev.outcome = "returned" /\ ev.value = <<>>

\* a step that is a direct call of initialize()
InitializeCall == \E io \in InitOutcomes : Initialize(io)

\* C7: a call of initialize() made while the model is Ready returns without
\* constructing a model or running a warm-up and leaves the model handle and
\* every other field unchanged.
C7_InitializeIdempotent ==
    [][(is_initialized /\ InitializeCall) =>
          /\ ev'.outcome = "returned"
          /\ UNCHANGED <<svc, constructions, warmups, backendCalls, pc, call>>]_vars

\* C7 witness: initialize() has been called and has returned after an
\* inference had already completed on the loaded model, and there has been
\* one construction and one warm-up in all.
C7_Witness ==
    /\ is_initialized
    /\ ev.op = "initialize" /\ ev.outcome = "returned"
    /\ nOk >= 1
    /\ constructions = 1 /\ warmups = 1

\* a step in which initialize() asked the backend for a model
LoadAttempt == constructions' = constructions + 1

\* C8: an initialize() that finds the model non-Ready attempts a construction
\* each time, also after a failure; when the construction or the warm-up
\* raises, the error reaches the caller and the model stays non-Ready (a
\* failed construction also leaves the handle as it was); otherwise the model
\* is Ready with a handle, after one warm-up.
C8_FailedInitIsRetryable ==
    [][/\ (~is_initialized /\ InitializeCall) => LoadAttempt
       /\ LoadAttempt =>
              /\ ~is_initialized
              /\ is_initialized' <=> ev'.outcome # "InitError"
              /\ is_initialized' => (model' # None /\ warmups' = warmups + 1)
              /\ warmups' = warmups => model' = model
       /\ ev'.outcome = "InitError" => ~is_initialized']_vars

\* C8 witness: the model is Ready after a second construction, the first
\* attempt having failed in the warm-up.
C8_Witness ==
    /\ is_initialized
    /\ constructions = 2 /\ warmups = 2
    /\ model = 2

RaisingOutcomes == {"ImportError", "InitError", "InferenceError"}

\* C9: no operation ends with an inference error; the availability error
\* comes only from the constructor, the initialization error only from
\* initialize(), directly or through the lazy call in detect(), on a
\* non-Ready model; once the model is Ready no detect() or process_frame()
\* raises.
C9_OnlyLoadErrorsPropagate ==
    [][/\ ev'.outcome # "InferenceError"
       /\ ev'.outcome = "ImportError" => (ev'.op = "__init__" /\ ~constructed')
       /\ ev'.outcome = "InitError" =>
              /\ ev'.op \in {"initialize", "detect", "process_frame"}
              /\ ~is_initialized'
       /\ (is_initialized /\ ev' # ev /\ ev'.op \in {"detect", "process_frame"})
              => ev'.outcome \notin RaisingOutcomes]_vars

\* C9 witness: on a Ready model a process_frame() whose inference failed has
\* returned normally.
C9_Witness ==
    /\ is_initialized
    /\ \A t \in Tasks : pc[t] = "idle"
    /\ backendCalls = 1 /\ nOk = 0
    /\ ev.op = "process_frame" /\ ev.outcome = "returned"

\* C10: the availability flag is a boolean, and when it is false no
\* instance ever exists, no load, warm-up, detect(), process_frame() or
\* backend call ever happens, and the constructor is all that can be called.
C10_UnavailableBackend ==
    /\ YOLO_AVAILABLE \in BOOLEAN
    /\ ~YOLO_AVAILABLE =>
           /\ ~constructed
           /\ constructions = 0 /\ warmups = 0
           /\ callsStarted = 0 /\ backendCalls = 0
           /\ \A t \in Tasks : pc[t] = "idle"
           /\ ev.op \in {"import", "__init__"}
           /\ ev.op = "__init__" => ev.outcome = "ImportError"

\* C10 witness: the constructor has raised the availability error.
C10_Witness ==
    /\ ~YOLO_AVAILABLE
    /\ ev.op = "__init__" /\ ev.outcome = "ImportError"
    /\ ~constructed

\* the batches a detect() call can return
ReturnedBatches == {TryBody(out).detections : out \in WorkerOutcomes}

\* C11: whenever a reader looks, the slot holds the initial empty batch or
\* the whole batch one detect() call returned, never part of one or a mix of
\* two.
C11_SlotHoldsOneBatch ==
    get_current_detections \in ReturnedBatches \cup {<<>>}

\* C11 witness: a reader looks at the slot, which holds a two-object batch
\* with a polygon, after two inferences have completed.
C11_Witness ==
    /\ ev.op = "get_current_detections"
    /\ nOk = 2 /\ callsStarted = 2
    /\ \A t \in Tasks : pc[t] = "idle"
    /\ Len(get_current_detections) = 2
    /\ "mask" \in DOMAIN get_current_detections[2]

\* C12 as stated: every step that changes a metrics accumulator is taken
\* while the lock is held.
C12_MetricsOnlyUnderLock ==
    [][metrics' # metrics => Locked]_vars

\* C12 amended: a metrics accumulator changes only when a call completes; a
\* process_frame() that changes one holds the lock at that moment, while a
\* standalone detect() changes them without taking the lock.
C12_MetricsUnderLockViaSubmit ==
    [][metrics' # metrics =>
          \E t \in Tasks :
              /\ Completes(t)
              /\ call[t].op = "process_frame" => lockHolder = t
              /\ call[t].op = "detect" => lockHolder # t]_vars

\* C12 witness: two inferences have been recorded, the later one by a
\* process_frame() that has just released the lock.
C12_Witness ==
    /\ total_inferences = 2
    /\ ev.op = "process_frame" /\ ev.outcome = "returned"
    /\ ~Locked

\* task t's accepted process_frame() has its backend call running before and
\* after this step: the call has not returned
StuckThrough(t) ==
    /\ call[t].op = "process_frame"
    /\ pc[t] = "to_thread" /\ pc'[t] = "to_thread"

\* a step in which process_frame() is called
SubmitCall == callsStarted' = callsStarted + 1 /\ ev'.op = "process_frame"

\* C13 as stated: as long as the backend call of an accepted process_frame()
\* has not returned, the lock stays with it, every process_frame() is
\* dropped, and neither the current detections nor the metrics change.
C13_StuckFreezesAll ==
    [][\A t \in Tasks : StuckThrough(t) =>
          /\ lockHolder' = t
          /\ SubmitCall => ev'.outcome = "dropped"
          /\ current_detections' = current_detections
          /\ metrics' = metrics]_vars

\* C13 amended: as long as that backend call has not returned, no step frees
\* the lock, whatever time passes; every process_frame() is dropped and the
\* current detections do not change; the metrics change only when a
\* standalone detect() completes.
C13_StuckFreezesSubmit ==
    [][\A t \in Tasks : StuckThrough(t) =>
          /\ lockHolder' = t
          /\ SubmitCall => ev'.outcome = "dropped"
          /\ current_detections' = current_detections
          /\ metrics' # metrics =>
                 \E u \in Tasks : Completes(u) /\ call[u].op = "detect"]_vars

\* C13 witness: the clock has run to its end while the backend call of an
\* accepted process_frame() is still running, and a later frame was dropped.
C13_Witness ==
    /\ \E t \in Tasks : /\ call[t].op = "process_frame"
                        /\ pc[t] = "to_thread"
                        /\ call[t].start_time = 0
                        /\ lockHolder = t
    /\ clock = MaxClock
    /\ callsStarted = MaxCalls
    /\ ev.outcome = "dropped"

\* C14: when an accepted process_frame() whose inference failed completes,
\* the slot holds the empty batch, and it keeps what it holds until a
\* process_frame() completes.
C14_FailedFrameShowsEmpty ==
    [][/\ \A t \in Tasks :
            (Completes(t) /\ call[t].op = "process_frame" /\ nOk' = nOk)
                => current_detections' = <<>>
       /\ current_detections' # current_detections =>
              \E t \in Tasks : Completes(t) /\ call[t].op = "process_frame"]_vars

\* C14 witness: after an inference that succeeded, an accepted
\* process_frame() whose backend result names an unknown class has ended and
\* the slot is empty.
C14_Witness ==
    /\ \A t \in Tasks : pc[t] = "idle"
    /\ backendCalls = 2 /\ nOk = 1
    /\ ev.op = "process_frame" /\ ev.outcome = "returned"
    /\ Len(ev.raw) = 1 /\ Decode(ev.raw).raised
    /\ current_detections = <<>>

\* C15 as stated: the slot changes only in a step in which an inference
\* completes successfully.
C15_SlotWrittenOnlyOnSuccess ==
    [][current_detections' # current_detections => nOk' = nOk + 1]_vars

\* C15 amended: the slot changes only in a step in which an accepted
\* process_frame() completes, with the batch of a successful inference or
\* with the empty batch of a failed one; a dropped process_frame() and a
\* standalone detect() leave the stored batch in place.
C15_SlotWrittenByAcceptedSubmit ==
    [][/\ current_detections' # current_detections =>
              \E t \in Tasks :
                  /\ Completes(t) /\ call[t].op = "process_frame"
                  /\ nOk' = nOk => current_detections' = <<>>
       /\ SubmitWhileHeld => current_detections' = current_detections
       /\ \A t \in Tasks : (Completes(t) /\ call[t].op = "detect")
              => current_detections' = current_detections]_vars

\* C15 witness: a standalone detect() has returned objects and the slot,
\* written by an earlier process_frame(), holds another batch.
C15_Witness ==
    /\ ev.op = "detect" /\ ev.outcome = "returned"
    /\ ev.value # <<>>
    /\ current_detections # <<>>
    /\ current_detections # ev.value

\* C18: a detect() that succeeds on a backend result with k boxes returns k
\* detections, the i-th carrying the class id of the i-th box, the label the
\* class-name table gives that id, and that box's coordinates and confidence,
\* so nothing is reordered, merged or left out.
C18_DecodeOneForOne ==
    [][\A t \in Tasks :
          (Completes(t) /\ nOk' = nOk + 1 /\ ev'.raw # <<>>) =>
              LET boxes == ev'.raw[1].boxes
                  dets == IF call[t].op = "detect" THEN ev'.value
                                                   ELSE current_detections'
              IN  /\ Len(dets) = Len(boxes)
                  /\ \A i \in 1..Len(boxes) :
                        /\ dets[i].class_id = boxes[i].cls
                        /\ dets[i].label = names[boxes[i].cls]
                        /\ dets[i].conf = Round(boxes[i].conf, HundredthUnit)
                        /\ \A k \in 1..4 :
                              dets[i].box[k] = Round(boxes[i].xyxy[k], TenthUnit)]_vars

\* C18 witness: detect() has returned three detections for a result with the
\* same box twice and, between the two, a box under the confidence threshold.
C18_Witness ==
    /\ ev.op = "detect" /\ ev.outcome = "returned"
    /\ Len(ev.raw) = 1 /\ Len(ev.raw[1].boxes) = 3
    /\ Len(ev.value) = 3
    /\ ev.value[1] = ev.value[3]
    /\ ev.value[2].conf * HundredthUnit < ConfThreshold

\* C16: a detect() entered on a non-Ready model calls initialize(), which
\* asks the backend for a model, before anything else; a per-frame inference
\* starts and runs only on a Ready model; and a call that ends with the
\* initialization error has started no inference and is not pending.
C16_LazyInitFirst ==
    [][/\ (callsStarted' = callsStarted + 1 /\ ~is_initialized) => LoadAttempt
       /\ backendCalls' # backendCalls => is_initialized'
       /\ InFlight' # {} => is_initialized'
       /\ (callsStarted' = callsStarted + 1 /\ ev'.outcome = "InitError") =>
              /\ backendCalls' = backendCalls
              /\ pc' = pc]_vars

\* C16 witness: the first detect() has ended with the initialization error
\* after the model was constructed and its warm-up failed, and no inference
\* was started.
C16_Witness ==
    /\ ev.op = "detect" /\ ev.outcome = "InitError"
    /\ callsStarted = 1 /\ backendCalls = 0
    /\ constructions = 1 /\ warmups = 1
    /\ model # None /\ ~is_initialized

\* C17 as stated: once Ready the model stays Ready with the same handle, and
\* no more than one construction ever returns a model (a warm-up is made
\* exactly for each construction that did).
C17_BuiltOnce ==
    [][/\ is_initialized => (is_initialized' /\ model' = model)
       /\ warmups' <= 1]_vars

\* C17 amended: once Ready the model stays Ready, its handle is not
\* reassigned and the backend is not asked to construct or warm up again;
\* Ready is entered only by a construction followed by its warm-up, whose
\* handle every pending call then uses.  Constructions whose warm-up failed
\* may have returned a model before.
C17_ReadyIsAbsorbing ==
    [][/\ is_initialized =>
              /\ is_initialized' /\ model' = model
              /\ constructions' = constructions /\ warmups' = warmups
       /\ (~is_initialized /\ is_initialized') =>
              /\ LoadAttempt /\ warmups' = warmups + 1
              /\ model' = constructions'
       /\ \A t \in Tasks : pc'[t] # "idle" => call'[t].fn = model']_vars

\* C17 witness: the model is Ready with the handle of the second
\* construction, the first one's warm-up having failed; an inference runs on
\* that handle and initialize() has just been called again and returned.
C17_Witness ==
    /\ is_initialized /\ model = 2
    /\ constructions = 2 /\ warmups = 2
    /\ \E t \in Tasks : pc[t] = "to_thread" /\ call[t].fn = model
    /\ ev.op = "initialize" /\ ev.outcome = "returned"

\* a process_frame() call that took the lock ends in this step: it is
\* resumed after its inference, or initialize() raised through detect()
SubmitEnds ==
    \/ \E t \in Tasks : Completes(t) /\ call[t].op = "process_frame"
    \/ SubmitCall /\ ev'.outcome = "InitError"

\* C19: the lock is held only by a process_frame() call that has not ended;
\* however an accepted process_frame() ends (inference returned, inference
\* failed, initialize() raised) the lock is free afterwards; a
\* process_frame() called while the lock is free is accepted; and, every
\* backend call ending, a held lock is eventually free.
C19_GateReleased ==
    /\ [](Locked => /\ pc[lockHolder] # "idle"
                    /\ call[lockHolder].op = "process_frame")
    /\ [][/\ SubmitEnds => ~Locked'
          /\ (SubmitCall /\ ~Locked) => ev'.outcome # "dropped"]_vars
    /\ (Locked ~> ~Locked)

\* C19 witness: a first process_frame() published its detections and gave
\* the lock back, and the process_frame() called after it was accepted and
\* holds the lock.
C19_Witness ==
    /\ callsStarted = 2 /\ nOk = 1
    /\ current_detections # <<>>
    /\ Locked
    /\ ev.op = "process_frame" /\ ev.outcome = "awaiting"

\* C20: the frames that took the lock are ranked in the order in which they
\* took it; the rank of the frame whose result current_detections holds never
\* goes down, every process_frame() that stores its result stores the result
\* of a frame accepted later than the one stored before, and
\* current_detections changes in no other step.
C20_NoStaleOverwrite ==
    [][/\ published' >= published
       /\ \A t \in Tasks :
              (Completes(t) /\ call[t].op = "process_frame") =>
                  /\ published' = call[t].seq
                  /\ published' > published
       /\ current_detections' # current_detections =>
              published' > published]_vars

\* C20 witness: two frames were accepted, both inferences succeeded, and
\* current_detections holds the non-empty result of the second, stored by
\* the process_frame() that has just returned.
C20_Witness ==
    /\ accepted = 2 /\ published = 2
    /\ callsStarted = 2 /\ nOk = 2
    /\ current_detections # <<>>
    /\ ev.op = "process_frame" /\ ev.outcome = "returned"

=============================================================================
